---- MODULE Spec2Model ----
(***************************************************************************)
(* Feed-in control loop of the ioBroker.zeropv adapter.                    *)
(*                                                                         *)
(* One adapter instance: onReady validates the configuration and starts    *)
(* polling; every poll reads the grid power, reads the current limit of    *)
(* every configured inverter, plans new limits (PowerCalculator), passes   *)
(* the plan through the threshold gate and the decrease delay, and writes  *)
(* the changed limits.                                                     *)
(*                                                                         *)
(* Encoding: a JavaScript null / undefined / unreadable value is the empty *)
(* tuple <<>> and a present value x is <<x>>.  JavaScript array index i is *)
(* position i + 1 of a TLA+ sequence.  Watts and milliseconds are          *)
(* integers.                                                               *)
(***************************************************************************)
EXTENDS Integers, Sequences, FiniteSets, TLC

Null == <<>>

\* ---------------------------------------------------------------- bounds
\* The clock is followed for MaxTime polling intervals.
MaxTime == 4

\* ------------------------------------------------------ program constants
DefaultMaxPower == 2250
DefaultPollingInterval == 10000
MinPollingInterval == 1000
DefaultFeedInThreshold == 100
MinFeedInThreshold == 50
DefaultTargetFeedIn == 800
DecreaseDelayFactor == 3

\* ------------------------------------------------------------ input sets
\* Configurations as entered by the user (before validateAndNormalize).
\* Two equal inverters, the documented settings.
ConfigEqual ==
    [ powerSourceObject |-> TRUE,
      invertersIs |-> "array",
      inverters |-> << [inverterObject |-> TRUE, maxPower |-> <<2250>>],
                       [inverterObject |-> TRUE, maxPower |-> <<2250>>] >>,
      pollingInterval |-> <<1000>>, feedInThreshold |-> <<100>>, targetFeedIn |-> <<800>> ]

\* Two inverters of unequal capacity.
ConfigUnequal ==
    [ powerSourceObject |-> TRUE,
      invertersIs |-> "array",
      inverters |-> << [inverterObject |-> TRUE, maxPower |-> <<2250>>],
                       [inverterObject |-> TRUE, maxPower |-> <<1500>>] >>,
      pollingInterval |-> <<1000>>, feedInThreshold |-> <<100>>, targetFeedIn |-> <<800>> ]

\* Missing and out-of-range settings, which the validator replaces.
ConfigDefaults ==
    [ powerSourceObject |-> TRUE,
      invertersIs |-> "array",
      inverters |-> << [inverterObject |-> TRUE, maxPower |-> Null],
                       [inverterObject |-> TRUE, maxPower |-> <<3000>>] >>,
      pollingInterval |-> Null, feedInThreshold |-> <<50>>, targetFeedIn |-> <<-200>> ]

\* One inverter with a capacity of 0 W, no export allowed.
ConfigZero ==
    [ powerSourceObject |-> TRUE,
      invertersIs |-> "array",
      inverters |-> << [inverterObject |-> TRUE, maxPower |-> <<0>>] >>,
      pollingInterval |-> <<500>>, feedInThreshold |-> <<20>>, targetFeedIn |-> <<0>> ]

\* Three inverters.
ConfigThree ==
    [ powerSourceObject |-> TRUE,
      invertersIs |-> "array",
      inverters |-> << [inverterObject |-> TRUE, maxPower |-> <<2250>>],
                       [inverterObject |-> TRUE, maxPower |-> <<1500>>],
                       [inverterObject |-> TRUE, maxPower |-> <<-1>>] >>,
      pollingInterval |-> <<2000>>, feedInThreshold |-> <<100>>, targetFeedIn |-> <<600>> ]

\* Invalid: no inverters.
ConfigNoInverters ==
    [ powerSourceObject |-> TRUE,
      invertersIs |-> "array",
      inverters |-> << >>,
      pollingInterval |-> <<1000>>, feedInThreshold |-> <<100>>, targetFeedIn |-> <<800>> ]

\* Invalid: no power source, an inverter without base object.
ConfigNoSource ==
    [ powerSourceObject |-> FALSE,
      invertersIs |-> "array",
      inverters |-> << [inverterObject |-> FALSE, maxPower |-> <<2250>>] >>,
      pollingInterval |-> <<1000>>, feedInThreshold |-> <<100>>, targetFeedIn |-> <<800>> ]

\* The control loop is followed over several polls for these configurations
\* and readings ...
RawConfigs == { ConfigEqual, ConfigUnequal, ConfigDefaults, ConfigNoInverters }
GridVals == {-3000, -1200, -850, 0, 500}
LimitVals == {0, 1000, 1500}

\* ... and the plan of one poll is computed for these.
RawConfigsWide == RawConfigs \cup { ConfigZero, ConfigThree, ConfigNoSource }
GridValsWide == {-3000, -1200, -900, -851, -850, -1, 0, 500, 2000}
LimitValsWide == {0, 1, 1000, 1500, 2250}

\* Polling intervals that can pass between two polls.
PollGaps == {1, DecreaseDelayFactor}

\* ------------------------------------------------------------- variables
VARIABLES
    phase,              \* "constructed" | "running" | "invalid" | "stopped"
    config,             \* this.config
    pollingTimer,       \* TRUE when a poll is scheduled
    lastDecreaseTime,   \* this.lastDecreaseTime
    clock,              \* Date.now() at the latest poll
    connection,         \* what onReady last published as info.connection
    tick,               \* what the latest poll read, planned, wrote and published
    decreases,          \* times of the latest two applied decreases, and the
                        \* ticks the cooldown suppressed after and before the latest
    polls,              \* the pollPowerData calls followed await by await
    validation,         \* what validateAndNormalize returned to onReady
    creation,           \* the createStatesAsync call followed await by await
    candidate           \* an object offered to ObjectFilter.isRelevantPowerSource

vars == << phase, config, pollingTimer, lastDecreaseTime, clock, connection,
           tick, decreases, polls, validation, creation, candidate >>

\* ---------------------------------------------------------------- helpers
Max(a, b) == IF a >= b THEN a ELSE b
Min(a, b) == IF a <= b THEN a ELSE b
Abs(a) == IF a < 0 THEN -a ELSE a

RECURSIVE SumSeq(_)
SumSeq(s) == IF s = <<>> THEN 0 ELSE Head(s) + SumSeq(Tail(s))

\* -------------------------------------------- ConfigValidator (lib/config-validator.js)
\* Mutant: a maxPower of 0 counts as missing.
normalizeMaxPower_ZeroMissing(mp) ==
    IF mp = Null \/ mp[1] = 0 THEN DefaultMaxPower
    ELSE IF mp[1] > DefaultMaxPower THEN DefaultMaxPower
    ELSE IF mp[1] < 0 THEN DefaultMaxPower
    ELSE mp[1]

\* maxPower: missing, above 2250 or negative becomes 2250.
normalizeMaxPower(mp) ==
    IF mp = Null THEN DefaultMaxPower
    ELSE IF mp[1] > DefaultMaxPower THEN DefaultMaxPower
    ELSE IF mp[1] < 0 THEN DefaultMaxPower
    ELSE mp[1]

\* pollingInterval: missing, 0 or below 1000 becomes 10000.
normalizePollingInterval(v) ==
    IF v = Null \/ v[1] = 0 \/ v[1] < MinPollingInterval
    THEN DefaultPollingInterval ELSE v[1]

\* feedInThreshold: missing, 0 or below 50 becomes 100.
normalizeFeedInThreshold(v) ==
    IF v = Null \/ v[1] = 0 \/ v[1] < MinFeedInThreshold
    THEN DefaultFeedInThreshold ELSE v[1]

\* targetFeedIn: missing or negative becomes 800.
normalizeTargetFeedIn(v) ==
    IF v = Null \/ v[1] < 0 THEN DefaultTargetFeedIn ELSE v[1]

\* Mutant: the validator returns after the first error.
validationErrors_FirstOnly(raw) ==
    IF ~raw.powerSourceObject THEN { <<"powerSourceObject", 0>> }
    ELSE IF raw.invertersIs # "array" \/ Len(raw.inverters) = 0
    THEN { <<"inverters", 0>> }
    ELSE LET missing == { j \in 1..Len(raw.inverters) : ~raw.inverters[j].inverterObject }
         IN  { <<"inverterObject", i>> : i \in { j \in missing : \A m \in missing : j <= m } }

\* The errors the validator collects.
validationErrors(raw) ==
    (IF raw.powerSourceObject THEN {} ELSE { <<"powerSourceObject", 0>> })
    \cup (IF raw.invertersIs # "array" \/ Len(raw.inverters) = 0
          THEN { <<"inverters", 0>> } ELSE {})
    \cup { <<"inverterObject", i>> : i \in { j \in 1..Len(raw.inverters) :
                                              ~raw.inverters[j].inverterObject } }

\* result.isValid: set to false next to every error that is pushed.
isValid(raw) ==
    /\ raw.powerSourceObject
    /\ raw.invertersIs = "array"
    /\ Len(raw.inverters) # 0
    /\ \A i \in 1..Len(raw.inverters) : raw.inverters[i].inverterObject

\* Mutant: an invalid configuration is returned as it is, without defaults.
validateAndNormalize_EarlyExit(raw) ==
    IF ~isValid(raw) THEN raw
    ELSE [ powerSourceObject |-> raw.powerSourceObject,
           invertersIs |-> raw.invertersIs,
           inverters |-> [ i \in 1..Len(raw.inverters) |->
                        [ inverterObject |-> raw.inverters[i].inverterObject,
                          maxPower |-> <<normalizeMaxPower(raw.inverters[i].maxPower)>> ] ],
           pollingInterval |-> <<normalizePollingInterval(raw.pollingInterval)>>,
           feedInThreshold |-> <<normalizeFeedInThreshold(raw.feedInThreshold)>>,
           targetFeedIn |-> <<normalizeTargetFeedIn(raw.targetFeedIn)>> ]

\* The configuration as validateAndNormalize leaves it (it is normalized in place).
validateAndNormalize(raw) ==
    [ powerSourceObject |-> raw.powerSourceObject,
      invertersIs |-> raw.invertersIs,
      inverters |-> [ i \in 1..Len(raw.inverters) |->
                        [ inverterObject |-> raw.inverters[i].inverterObject,
                          maxPower |-> <<normalizeMaxPower(raw.inverters[i].maxPower)>> ] ],
      pollingInterval |-> <<normalizePollingInterval(raw.pollingInterval)>>,
      feedInThreshold |-> <<normalizeFeedInThreshold(raw.feedInThreshold)>>,
      targetFeedIn |-> <<normalizeTargetFeedIn(raw.targetFeedIn)>> ]

\* -------------------------------------------- StateManager (lib/state-manager.js)
\* The base states, in the order of their setObjectNotExistsAsync calls.
BaseStates == << "gridPower", "feedingIn", "currentPowerLimit", "powerControlActive" >>

\* The id of a base state, or of inverter<i>.powerLimit.
stateId(name, inverter) == [ name |-> name, inverter |-> inverter ]

\* createStatesAsync has not been called.
NoCreation == [ pc |-> "idle", calls |-> <<>>, lookups |-> <<>>, rejected |-> {} ]

\* createStatesAsync up to its first await: setObjectNotExistsAsync('gridPower').
\*   calls    the setObjectNotExistsAsync calls made so far, the last one
\*            awaited while pc = "create"
\*   lookups  the inverters whose display name was asked for, the last one
\*            awaited while pc = "lookup"
\*   rejected the inverters whose display-name lookup rejected
createStarted ==
    [ pc |-> "create", calls |-> << stateId(BaseStates[1], Null) >>,
      lookups |-> <<>>, rejected |-> {} ]

\* Mutant: a display name that cannot be looked up is replaced by a default
\* name and the state is created all the same.
afterLookup_Fallback(c, ok) ==
    [c EXCEPT !.rejected = IF ok THEN @ ELSE @ \cup {Len(c.lookups)},
              !.pc = "create",
              !.calls = Append(@, stateId("powerLimit", <<Len(c.lookups)>>))]

\* await getInverterDisplayName(inverter.inverterObject, i) settles; ~ok: it
\* rejected, and so does createStatesAsync.
afterLookup(c, ok) ==
    IF ~ok
    THEN [c EXCEPT !.pc = "failed", !.rejected = @ \cup {Len(c.lookups)}]
    ELSE [c EXCEPT !.pc = "create",
                   !.calls = Append(@, stateId("powerLimit", <<Len(c.lookups)>>))]

\* await adapter.setObjectNotExistsAsync(...) settles; ~ok: it rejected.
afterCreate(c, inverters, ok) ==
    IF ~ok
    THEN [c EXCEPT !.pc = "failed"]
    ELSE IF Len(c.calls) < Len(BaseStates)
    THEN [c EXCEPT !.calls = Append(@, stateId(BaseStates[Len(c.calls) + 1], Null))]
    ELSE IF Len(c.lookups) < Len(inverters)
    THEN [c EXCEPT !.pc = "lookup", !.lookups = Append(@, Len(c.lookups) + 1)]
    ELSE [c EXCEPT !.pc = "done"]

\* createStatesAsync run to its end with an object store that accepts every
\* object and the adapter's getInverterDisplayName, which catches its errors
\* and never rejects.
RECURSIVE createStatesAsync(_, _)
createStatesAsync(c, inverters) ==
    IF c.pc = "done" THEN c
    ELSE IF c.pc = "lookup" THEN createStatesAsync(afterLookup(c, TRUE), inverters)
    ELSE createStatesAsync(afterCreate(c, inverters, TRUE), inverters)

\* -------------------------------------------- ObjectFilter (lib/object-filter.js)
\* A string is the sequence of its characters.
UpperCase == << "A", "B", "C", "D", "E", "F", "G", "H", "I", "J", "K", "L", "M", "N", "O", "P", "Q", "R", "S", "T", "U", "V", "W", "X", "Y", "Z" >>
LowerCase == << "a", "b", "c", "d", "e", "f", "g", "h", "i", "j", "k", "l", "m", "n", "o", "p", "q", "r", "s", "t", "u", "v", "w", "x", "y", "z" >>
Digits == { "0", "1", "2", "3", "4", "5", "6", "7", "8", "9" }

\* String.prototype.toLowerCase
toLowerCase(s) ==
    [ i \in 1..Len(s) |->
        IF \E k \in 1..Len(UpperCase) : UpperCase[k] = s[i]
        THEN LowerCase[CHOOSE k \in 1..Len(UpperCase) : UpperCase[k] = s[i]]
        ELSE s[i] ]

\* String.prototype.includes
includes(s, sub) ==
    \E i \in 1..(Len(s) - Len(sub) + 1) : SubSeq(s, i, i + Len(sub) - 1) = sub

\* /suffix$/.test(s)
endsWith(s, suffix) ==
    /\ Len(s) >= Len(suffix)
    /\ SubSeq(s, Len(s) - Len(suffix) + 1, Len(s)) = suffix

\* /\.word_\d+\./.test(s), word_ given with its leading dot
matchesNumbered(s, word) ==
    \E i \in 1..Len(s), j \in 1..Len(s) :
        /\ i + Len(word) <= j
        /\ j < Len(s)
        /\ SubSeq(s, i, i + Len(word) - 1) = word
        /\ \A k \in (i + Len(word))..j : s[k] \in Digits
        /\ s[j + 1] = "."

\* /\.Word[ABC]$/.test(s), Word given with its leading dot
matchesPerPhase(s, word) ==
    /\ Len(s) > Len(word)
    /\ s[Len(s)] \in { "A", "B", "C" }
    /\ endsWith(SubSeq(s, 1, Len(s) - 1), word)

\* some pattern of excludePatterns matches the id
matchesExclude(id) ==
    \/ matchesNumbered(id, << ".", "p", "h", "a", "s", "e", "_" >>)   \* /\.phase_\d+\./
    \/ matchesNumbered(id, << ".", "i", "n", "p", "u", "t", "_" >>)   \* /\.input_\d+\./
    \/ matchesPerPhase(id, << ".", "A", "p", "p", "a", "r", "e", "n", "t", "P", "o", "w", "e", "r" >>)   \* /\.ApparentPower[ABC]$/
    \/ matchesPerPhase(id, << ".", "R", "e", "a", "c", "t", "i", "v", "e", "P", "o", "w", "e", "r" >>)   \* /\.ReactivePower[ABC]$/
    \/ matchesPerPhase(id, << ".", "A", "c", "t", "i", "v", "e", "P", "o", "w", "e", "r" >>)   \* /\.ActivePower[ABC]$/
    \/ endsWith(id, << ".", "p", "o", "w", "e", "r", "_", "d", "c" >>)   \* /\.power_dc$/

\* some pattern of includePatterns matches the id
matchesInclude(id) ==
    \/ endsWith(id, << "T", "o", "t", "a", "l", "A", "c", "t", "i", "v", "e", "P", "o", "w", "e", "r" >>)   \* /TotalActivePower$/
    \/ endsWith(id, << "T", "o", "t", "a", "l", "A", "p", "p", "a", "r", "e", "n", "t", "P", "o", "w", "e", "r" >>)   \* /TotalApparentPower$/
    \/ endsWith(id, << ".", "t", "o", "t", "a", "l", ".", "p", "o", "w", "e", "r" >>)   \* /\.total\.power$/
    \/ endsWith(id, << "g", "r", "i", "d", "P", "o", "w", "e", "r" >>)   \* /gridPower$/
    \/ endsWith(id, << "t", "o", "t", "a", "l", "P", "o", "w", "e", "r" >>)   \* /totalPower$/
    \/ endsWith(id, << "a", "c", "t", "i", "v", "e", "P", "o", "w", "e", "r" >>)   \* /activePower$/

\* the rule on objData.common.name; name is <<string>>, or Null when
\* common.name is not a string
nameIsRelevant(name) ==
    /\ name # Null
    /\ LET lowerName == toLowerCase(name[1])
       IN  /\ \/ includes(lowerName, << "t", "o", "t", "a", "l" >>)
              \/ includes(lowerName, << "g", "r", "i", "d" >>)
              \/ includes(lowerName, << "m", "a", "i", "n" >>)
           /\ ~includes(lowerName, << "p", "h", "a", "s", "e" >>)
           /\ ~includes(lowerName, << "i", "n", "p", "u", "t" >>)

\* Mutant: the include patterns and the name rule are tried before the
\* exclusions.
isRelevantPowerSource_IncludeFirst(id, name) ==
    IF matchesInclude(id) THEN TRUE
    ELSE IF nameIsRelevant(name) THEN TRUE
    ELSE FALSE

isRelevantPowerSource(id, name) ==
    IF includes(toLowerCase(id), << "o", "p", "e", "n", "d", "t", "u" >>) THEN FALSE
    ELSE IF matchesExclude(id) THEN FALSE
    ELSE IF matchesInclude(id) THEN TRUE
    ELSE IF nameIsRelevant(name) THEN TRUE
    ELSE FALSE

\* -------------------------------------------- InverterManager (lib/inverter-manager.js)
\* reads[i] is what the read of inverter i returned: <<value>>, or Null when the
\* state is missing, null, undefined, not a number, or the read threw.
getAllInverterLimits(cfg, reads) ==
    LET all == [ i \in 1..Len(cfg.inverters) |-> [index |-> i, value |-> reads[i]] ]
        ok == SelectSeq(all, LAMBDA r : r.value # Null)
    IN  [ k \in 1..Len(ok) |-> [index |-> ok[k].index, value |-> ok[k].value[1]] ]

\* -------------------------------------------- PowerCalculator (lib/power-calculator.js)
\* Mutant: the total is the one planned by the previous tick (state kept between
\* ticks) instead of the sum of the snapshot.
totalOldLimitOf_Remembered(currentLimits) ==
    IF tick.plan # <<>>
    THEN tick.plan[1].totalNewLimit
    ELSE SumSeq([ k \in 1..Len(currentLimits) |-> currentLimits[k].value ])

\* currentLimits.reduce((sum, limit) => sum + limit.value, 0)
totalOldLimitOf(currentLimits) ==
    SumSeq([ k \in 1..Len(currentLimits) |-> currentLimits[k].value ])

\* Mutant: the feed-in branch is not floored at 0.
newTotalLimit_NoFloor(currentGridPower, totalOldLimit, cfg) ==
    IF currentGridPower >= 0
    THEN totalOldLimit + currentGridPower + cfg.targetFeedIn[1]
    ELSE totalOldLimit - ((-currentGridPower) - cfg.targetFeedIn[1])

\* Mutant: importing, the targetFeedIn offset is left out.
newTotalLimit_NoImportOffset(currentGridPower, totalOldLimit, cfg) ==
    IF currentGridPower >= 0
    THEN totalOldLimit + currentGridPower
    ELSE Max(0, totalOldLimit - ((-currentGridPower) - cfg.targetFeedIn[1]))

\* Mutant: exporting, targetFeedIn is taken as a negative level.
newTotalLimit_ExportSign(currentGridPower, totalOldLimit, cfg) ==
    IF currentGridPower >= 0
    THEN totalOldLimit + currentGridPower + cfg.targetFeedIn[1]
    ELSE Max(0, totalOldLimit + (currentGridPower - cfg.targetFeedIn[1]))

\* The aggregate target before the split.
newTotalLimit(currentGridPower, totalOldLimit, cfg) ==
    IF currentGridPower >= 0
    THEN totalOldLimit + currentGridPower + cfg.targetFeedIn[1]
    ELSE LET excessFeedIn == (-currentGridPower) - cfg.targetFeedIn[1]
         IN  Max(0, totalOldLimit - excessFeedIn)

\* Mutant: the share is rounded up instead of down.
newLimitPerInverter_Ceil(total, cfg) ==
    (total + Len(cfg.inverters) - 1) \div Len(cfg.inverters)

\* Math.floor(newTotalLimit / config.inverters.length)
newLimitPerInverter(total, cfg) == total \div Len(cfg.inverters)

\* Math.min(newLimitPerInverter, inverter.maxPower || 2250)
clampedLimit(perInverter, inverter) ==
    Min(perInverter,
        IF inverter.maxPower = Null \/ inverter.maxPower[1] = 0
        THEN DefaultMaxPower ELSE inverter.maxPower[1])

calculateNewClampedLimits(currentGridPower, currentLimits, cfg) ==
    LET totalOldLimit == totalOldLimitOf(currentLimits)
        target == newTotalLimit(currentGridPower, totalOldLimit, cfg)
        perInverter == newLimitPerInverter(target, cfg)
        newLimits == [ k \in 1..Len(currentLimits) |->
                         [ index |-> currentLimits[k].index,
                           oldValue |-> currentLimits[k].value,
                           newValue |-> clampedLimit(perInverter,
                                           cfg.inverters[currentLimits[k].index]) ] ]
    IN  [ newLimits |-> newLimits,
          totalOldLimit |-> totalOldLimit,
          totalNewLimit |-> SumSeq([ k \in 1..Len(newLimits) |-> newLimits[k].newValue ]) ]

\* Mutant: every change of the total, however small, is applied.
isSignificant_Any(actualLimitChange, cfg) == actualLimitChange > 0

\* -------------------------------------------- gates of checkPowerControlAdjustment (main.js)
\* Mutant: the threshold itself is not significant.
isSignificant_Strict(actualLimitChange, cfg) == actualLimitChange > cfg.feedInThreshold[1]

\* actualLimitChange >= this.config.feedInThreshold
isSignificant(actualLimitChange, cfg) == actualLimitChange >= cfg.feedInThreshold[1]

\* const decreaseDelay = this.config.pollingInterval * 3
decreaseDelay(cfg) == cfg.pollingInterval[1] * DecreaseDelayFactor

\* Mutant: the delay must be exceeded, not only reached.
decreaseAllowed_Strict(now, last, cfg) ==
    \/ last = Null
    \/ last[1] = 0
    \/ now - last[1] > decreaseDelay(cfg)

\* !this.lastDecreaseTime || (now - this.lastDecreaseTime) >= decreaseDelay
decreaseAllowed(now, last, cfg) ==
    \/ last = Null
    \/ last[1] = 0
    \/ now - last[1] >= decreaseDelay(cfg)

\* Mutant: every planned limit is sent.
limitChanged_Always(limit) == TRUE

\* limit.newValue !== limit.oldValue
limitChanged(limit) == limit.newValue # limit.oldValue

\* The setForeignStateAsync calls applyInverterPowerLimits issues, in order.
writesOf(newLimits) ==
    LET changed == SelectSeq(newLimits, limitChanged)
    IN  [ k \in 1..Len(changed) |->
            [index |-> changed[k].index, value |-> changed[k].newValue] ]

\* What checkPowerControlAdjustment decides for a plan:
\* "increase", "decrease", "delayed" or "belowThreshold".
decisionOf(plan, now, last, cfg) ==
    IF isSignificant(Abs(plan.totalNewLimit - plan.totalOldLimit), cfg)
    THEN IF ~(plan.totalNewLimit < plan.totalOldLimit) THEN "increase"
         ELSE IF decreaseAllowed(now, last, cfg) THEN "decrease"
         ELSE "delayed"
    ELSE "belowThreshold"

\* Mutant: a suppressed decrease restarts the cooldown.
lastDecreaseTimeAfter_RestartOnDelay(decision, now, last) ==
    CASE decision = "increase" -> Null
      [] decision \in {"decrease", "delayed"} -> <<now>>
      [] OTHER -> last

\* this.lastDecreaseTime after the decision.
lastDecreaseTimeAfter(decision, now, last) ==
    CASE decision = "increase" -> Null
      [] decision = "decrease" -> <<now>>
      [] OTHER -> last

\* The record of the applied and the suppressed decreases after the decision
\* of a tick: an applied decrease starts a new count of suppressed ticks and
\* keeps the count it ended, a tick suppressed by the cooldown is counted.
\* `failed': not one write of the latest applied decrease succeeded.
decreasesAfter(decision, now, okWrites, d) ==
    CASE decision = "decrease" ->
             [ last |-> <<now>>, prev |-> d.last,
               suppressed |-> 0, ended |-> d.suppressed, failed |-> okWrites = {} ]
      [] decision = "delayed" -> [d EXCEPT !.suppressed = @ + 1]
      [] OTHER -> d

\* ---------------------------------------------------------------- Init
\* The record of a poll.  The states the adapter publishes (gridPower,
\* feedingIn, currentPowerLimit, powerControlActive, inverter<i>.powerLimit)
\* are write-only: the record holds the setState calls of the poll.
NoTick == [ g |-> Null, now |-> 0, currentLimits |-> <<>>, plan |-> <<>>,
            applied |-> FALSE, writes |-> <<>>, okWrites |-> {},
            gridPower |-> Null, feedingIn |-> Null, currentPowerLimit |-> Null,
            powerControlActive |-> Null, powerLimit |-> {} ]

\* No object has been offered to the filter.
NoCandidate == [ id |-> <<>>, name |-> Null, relevant |-> Null ]

InitWith(configs) ==
    /\ phase = "constructed"
    /\ config \in configs
    /\ pollingTimer = FALSE
    /\ lastDecreaseTime = Null
    /\ clock = 0
    /\ connection = Null
    /\ tick = NoTick
    /\ decreases = [ last |-> Null, prev |-> Null, suppressed |-> 0, ended |-> 0,
                     failed |-> FALSE ]
    /\ polls = <<>>
    /\ validation = Null
    /\ creation = NoCreation
    /\ candidate = NoCandidate

Init == InitWith(RawConfigs)

\* ---------------------------------------------------------------- onReady
OnReady ==
    /\ phase = "constructed"
    /\ config' = validateAndNormalize(config)
    /\ validation' = << [ isValid |-> isValid(config),
                          errors |-> validationErrors(config) ] >>
    /\ IF ~isValid(config)
       THEN /\ phase' = "invalid"
            /\ connection' = <<FALSE>>
            /\ pollingTimer' = FALSE
            /\ UNCHANGED creation
       ELSE /\ phase' = "running"
            /\ connection' = <<TRUE>>
            /\ pollingTimer' = TRUE
            /\ creation' = createStatesAsync(createStarted, config'.inverters)
    /\ UNCHANGED << lastDecreaseTime, clock, tick, decreases, polls, candidate >>

\* ---------------------------------------------------------------- onUnload
OnUnload ==
    /\ phase \in {"running", "invalid"}
    /\ phase' = "stopped"
    /\ pollingTimer' = FALSE
    /\ UNCHANGED << config, lastDecreaseTime, clock, connection, tick, decreases,
                    polls, validation, creation, candidate >>

\* ---------------------------------------------------------------- pollPowerData
\* One poll, run to completion: the grid power read, checkPowerControlAdjustment
\* with getAllInverterLimits, calculateNewClampedLimits and
\* applyInverterPowerLimits, and the re-arming of the timer.
\*   dt        polling intervals since the previous poll
\*   telemetry grid power read: <<g>>, or Null (missing, not a number, read threw)
\*   reads     limit read per configured inverter
\* Which of the issued limit writes succeed is chosen inside.
PollPowerData(dt, telemetry, reads) ==
    /\ phase = "running"
    /\ pollingTimer
    /\ clock + dt * config.pollingInterval[1] <= MaxTime * config.pollingInterval[1]
    /\ clock' = clock + dt * config.pollingInterval[1]
    /\ pollingTimer' = TRUE
    /\ UNCHANGED << phase, config, connection, polls, validation, creation, candidate >>
    /\ IF telemetry = Null
       THEN \* no grid power: nothing is published, no evaluation
            /\ tick' = [ NoTick EXCEPT !.now = clock' ]
            /\ UNCHANGED << lastDecreaseTime, decreases >>
       ELSE \E currentLimits \in { getAllInverterLimits(config, reads) } :
            IF Len(currentLimits) = 0
            THEN \* no limit could be read: return
                 /\ tick' = [ NoTick EXCEPT !.now = clock', !.g = telemetry,
                                !.gridPower = telemetry,
                                !.feedingIn = <<telemetry[1] < 0>> ]
                 /\ UNCHANGED << lastDecreaseTime, decreases >>
            ELSE \E plan \in { calculateNewClampedLimits(telemetry[1], currentLimits, config) } :
                 \E decision \in { decisionOf(plan, clock', lastDecreaseTime, config) } :
                 \E writes \in { IF decision \in {"increase", "decrease"}
                                 THEN writesOf(plan.newLimits) ELSE <<>> } :
                 \E okWrites \in SUBSET { writes[k].index : k \in 1..Len(writes) } :
                   /\ lastDecreaseTime' = lastDecreaseTimeAfter(decision, clock', lastDecreaseTime)
                   /\ decreases' = decreasesAfter(decision, clock', okWrites, decreases)
                   /\ tick' = [ g |-> telemetry,
                                now |-> clock',
                                currentLimits |-> currentLimits,
                                plan |-> <<plan>>,
                                applied |-> decision \in {"increase", "decrease"},
                                writes |-> writes,
                                okWrites |-> okWrites,
                                gridPower |-> telemetry,
                                feedingIn |-> <<telemetry[1] < 0>>,
                                currentPowerLimit |->
                                    IF decision \in {"increase", "decrease"}
                                    THEN <<plan.totalNewLimit>> ELSE Null,
                                powerControlActive |->
                                    <<decision \in {"increase", "decrease"}>>,
                                powerLimit |-> { writes[k] : k \in { j \in 1..Len(writes) :
                                                    writes[j].index \in okWrites } } ]

PollWith(grid, limits) ==
    \E dt \in PollGaps,
       telemetry \in {Null} \cup { <<g>> : g \in grid },
       reads \in [ 1..Len(config.inverters) -> {Null} \cup { <<l>> : l \in limits } ] :
         PollPowerData(dt, telemetry, reads)

Poll == PollWith(GridVals, LimitVals)

Next == OnReady \/ Poll \/ OnUnload

Spec == Init /\ [][Next]_vars

\* The first poll after start, over the wide input sets.
InitPlan == InitWith(RawConfigsWide)

FirstPoll == clock = 0 /\ PollWith(GridValsWide, LimitValsWide)

NextPlan == OnReady \/ FirstPoll \/ OnUnload

SpecPlan == InitPlan /\ [][NextPlan]_vars

\* ================================================ a poll, await by await
\* The specifications above run a poll to completion in one step.  Here a
\* pollPowerData call is followed from one await to the next: `polls' holds
\* the calls in progress (and the call that returned last), each suspended
\* at the await `pc' names.  A record of `polls':
\*   pc        "getPowerState" | "setGridPower" | "setFeedingIn" | "getLimit" |
\*             "setInactive" | "getNames" | "setLimits" |
\*             "setCurrentPowerLimit" | "setActive" | "returned"
\*   powerState what the grid power read returned
\*   reads     what the limit reads that settled returned, in inverter order
\*   issued    the inverters whose limit read was issued
\*   pending   the inverters whose limit write was issued and has not settled
\*   decision  what the gates decided
\*   aborted   the poll got no grid power or could not publish it
\*   threw     a setState call of the poll threw
\*   rec       the record of the poll (as `tick')
\*
\* What getForeignStateAsync returns: a state whose val parses as the number
\* val (kind "number"), or one of ReadFailures.
ReadFailures == { "throws", "no state", "null", "undefined", "not a number" }

StatesOf(failures, vals) ==
    { [kind |-> "number", val |-> v] : v \in vals }
        \cup { [kind |-> f, val |-> 0] : f \in failures }

RawConfigsSteps == { ConfigEqual, ConfigNoInverters }
GridValsSteps == {-3000, -850, 500}
LimitValsSteps == {1000}

\* The first poll is followed for every kind of read failure.
RawConfigsReads == { ConfigEqual, ConfigThree, ConfigNoInverters }
GridValsReads == {-3000, -850, 0, 500}
LimitValsReads == {0, 1000}

\* Mutant: an unreadable grid power counts as 0 W.
powerValueOf_DefaultZero(state) == IF state.kind = "number" THEN <<state.val>> ELSE <<0>>

\* powerState && val !== null && val !== undefined && !isNaN(parseFloat(val))
powerValueOf(state) == IF state.kind = "number" THEN <<state.val>> ELSE Null

\* Mutant: an unreadable limit counts as 0 W.
limitValueOf_DefaultZero(state) == IF state.kind = "number" THEN <<state.val>> ELSE <<0>>

\* limitState && val !== null && val !== undefined && !isNaN(parseFloat(val)),
\* inside the try of the read.
limitValueOf(state) == IF state.kind = "number" THEN <<state.val>> ELSE Null

NewPoll(now) ==
    [ pc |-> "getPowerState", powerState |-> [kind |-> "pending", val |-> 0],
      reads |-> <<>>, issued |-> {}, pending |-> {},
      decision |-> "none", aborted |-> FALSE, threw |-> FALSE,
      rec |-> [NoTick EXCEPT !.now = now] ]

InFlight(p) == p.pc # "returned"

\* Mutant: the timer is armed when the poll starts, as an interval timer.
armsTimer_AtStart(p) == p.pc = "getPowerState"

\* Mutant: the timer is armed on the path that got and published grid power.
armsTimer_OnSuccess(p) == p.pc = "returned" /\ ~p.aborted

\* this.pollingTimer = setTimeout(...): after the try/catch of pollPowerData.
armsTimer(p) == p.pc = "returned"

\* The limit reads issued once `settled' of `count' reads have settled:
\* the loop awaits each read before it issues the next.
nextReads(settled, count) == IF settled < count THEN {settled + 1} ELSE {}

\* Mutant: an empty snapshot is planned for like any other.
afterSnapshot_NoGuard(p, now, last, cfg) ==
    LET currentLimits == getAllInverterLimits(cfg,
                             [ i \in 1..Len(p.reads) |-> limitValueOf(p.reads[i]) ])
        plan == calculateNewClampedLimits(p.rec.g[1], currentLimits, cfg)
        decision == decisionOf(plan, now, last, cfg)
        applied == decision \in {"increase", "decrease"}
    IN  [p EXCEPT !.decision = decision,
                  !.pc = IF applied THEN "getNames" ELSE "setInactive",
                  !.rec.now = now,
                  !.rec.currentLimits = currentLimits,
                  !.rec.plan = <<plan>>,
                  !.rec.applied = applied,
                  !.rec.powerControlActive = IF applied THEN Null ELSE <<FALSE>>]

\* Mutant: a decrease held back by the delay returns without publishing
\* powerControlActive.
afterSnapshot_SilentDelay(p, now, last, cfg) ==
    LET currentLimits == getAllInverterLimits(cfg,
                             [ i \in 1..Len(p.reads) |-> limitValueOf(p.reads[i]) ])
    IN  IF Len(currentLimits) = 0
        THEN [p EXCEPT !.pc = "returned"]
        ELSE LET plan == calculateNewClampedLimits(p.rec.g[1], currentLimits, cfg)
                 decision == decisionOf(plan, now, last, cfg)
                 applied == decision \in {"increase", "decrease"}
             IN  [p EXCEPT !.decision = decision,
                           !.pc = IF applied THEN "getNames"
                                  ELSE IF decision = "delayed" THEN "returned"
                                  ELSE "setInactive",
                           !.rec.now = now,
                           !.rec.currentLimits = currentLimits,
                           !.rec.plan = <<plan>>,
                           !.rec.applied = applied,
                           !.rec.powerControlActive =
                               IF applied \/ decision = "delayed"
                               THEN Null ELSE <<FALSE>>]

\* checkPowerControlAdjustment from the snapshot to its next await.
afterSnapshot(p, now, last, cfg) ==
    LET currentLimits == getAllInverterLimits(cfg,
                             [ i \in 1..Len(p.reads) |-> limitValueOf(p.reads[i]) ])
    IN  IF Len(currentLimits) = 0
        THEN [p EXCEPT !.pc = "returned"]
        ELSE LET plan == calculateNewClampedLimits(p.rec.g[1], currentLimits, cfg)
                 decision == decisionOf(plan, now, last, cfg)
                 applied == decision \in {"increase", "decrease"}
             IN  [p EXCEPT !.decision = decision,
                           !.pc = IF applied THEN "getNames" ELSE "setInactive",
                           !.rec.now = now,
                           !.rec.currentLimits = currentLimits,
                           !.rec.plan = <<plan>>,
                           !.rec.applied = applied,
                           !.rec.powerControlActive =
                               IF applied THEN Null ELSE <<FALSE>>]

\* Poll k goes on as p; `stamp': applyInverterPowerLimits has returned and
\* this.lastDecreaseTime is assigned.
\* (The counts of suppressed ticks in `decreases' are kept for the polls that
\* run to completion only.)
Step(k, p, stamp) ==
    /\ polls' = [polls EXCEPT ![k] = p]
    /\ pollingTimer' = (pollingTimer \/ armsTimer(p))
    /\ tick' = IF p.pc = "returned" THEN p.rec ELSE tick
    /\ IF stamp
       THEN /\ lastDecreaseTime' =
                  lastDecreaseTimeAfter(p.decision, p.rec.now, lastDecreaseTime)
            /\ decreases' = IF p.decision = "decrease"
                            THEN [decreases EXCEPT !.last = <<p.rec.now>>,
                                                   !.prev = decreases.last]
                            ELSE decreases
       ELSE UNCHANGED << lastDecreaseTime, decreases >>
    /\ UNCHANGED << phase, config, connection, clock, validation, creation, candidate >>

\* onReady: startPowerMonitoring calls pollPowerData itself.  Date.now() is
\* positive: the first poll is placed one polling interval after construction.
\* onReady without the validation gate: the adapter goes on to create the
\* states and to start polling whatever validateAndNormalize reported.
OnReadySteps_Ungated ==
    /\ phase = "constructed"
    /\ config' = validateAndNormalize(config)
    /\ validation' = << [ isValid |-> isValid(config),
                          errors |-> validationErrors(config) ] >>
    /\ phase' = "running"
    /\ creation' = createStatesAsync(createStarted, config'.inverters)
    /\ connection' = <<TRUE>>
    /\ clock' = config'.pollingInterval[1]
    /\ polls' = << NewPoll(clock') >>
    /\ pollingTimer' = armsTimer(NewPoll(clock'))
    /\ UNCHANGED << lastDecreaseTime, tick, decreases, candidate >>

OnReadySteps ==
    /\ phase = "constructed"
    /\ config' = validateAndNormalize(config)
    /\ validation' = << [ isValid |-> isValid(config),
                          errors |-> validationErrors(config) ] >>
    /\ IF ~isValid(config)
       THEN /\ phase' = "invalid"
            /\ connection' = <<FALSE>>
            /\ pollingTimer' = FALSE
            /\ UNCHANGED << clock, polls, creation >>
       ELSE /\ phase' = "running"
            /\ creation' = createStatesAsync(createStarted, config'.inverters)
            /\ connection' = <<TRUE>>
            /\ clock' = config'.pollingInterval[1]
            /\ polls' = << NewPoll(clock') >>
            /\ pollingTimer' = armsTimer(NewPoll(clock'))
    /\ UNCHANGED << lastDecreaseTime, tick, decreases, candidate >>

\* The timer fires dt polling intervals after the previous poll started and
\* its callback calls pollPowerData.
StartPoll(dt) ==
    /\ pollingTimer
    /\ clock + dt * config.pollingInterval[1] <= MaxTime * config.pollingInterval[1]
    /\ clock' = clock + dt * config.pollingInterval[1]
    /\ polls' = Append(SelectSeq(polls, InFlight), NewPoll(clock'))
    /\ pollingTimer' = armsTimer(NewPoll(clock'))
    /\ UNCHANGED << phase, config, lastDecreaseTime, connection, tick, decreases,
                    validation, creation, candidate >>

\* await getForeignStateAsync(powerSourceObject) settles.
PowerStateRead(k, state) ==
    /\ polls[k].pc = "getPowerState"
    /\ LET p == [polls[k] EXCEPT !.powerState = state]
           telemetry == powerValueOf(state)
       IN  Step(k, IF telemetry = Null
                   THEN [p EXCEPT !.pc = "returned", !.aborted = TRUE]
                   ELSE [p EXCEPT !.pc = "setGridPower",
                                  !.rec.g = telemetry,
                                  !.rec.gridPower = telemetry],
                FALSE)

\* Mutant: each of the two setState calls has its own catch, so a state update
\* that throws is logged and the poll goes on to the evaluation.
TelemetryPublished_Swallowed(k, ok) ==
    /\ polls[k].pc \in {"setGridPower", "setFeedingIn"}
    /\ LET p == [polls[k] EXCEPT !.threw = @ \/ ~ok]
       IN  Step(k, IF p.pc = "setGridPower"
                   THEN [p EXCEPT !.pc = "setFeedingIn",
                                  !.rec.feedingIn = <<p.rec.g[1] < 0>>]
                   ELSE [p EXCEPT !.pc = "getLimit",
                                  !.issued = nextReads(0, Len(config.inverters))],
                FALSE)

\* await setState('gridPower') or await setState('feedingIn') settles;
\* ~ok: it threw.
TelemetryPublished(k, ok) ==
    /\ polls[k].pc \in {"setGridPower", "setFeedingIn"}
    /\ LET p == polls[k]
       IN  Step(k, IF ~ok
                   THEN [p EXCEPT !.pc = "returned", !.aborted = TRUE, !.threw = TRUE]
                   ELSE IF p.pc = "setGridPower"
                   THEN [p EXCEPT !.pc = "setFeedingIn",
                                  !.rec.feedingIn = <<p.rec.g[1] < 0>>]
                   ELSE [p EXCEPT !.pc = "getLimit",
                                  !.issued = nextReads(0, Len(config.inverters))],
                FALSE)

\* await getForeignStateAsync(current_limit_absolute) settles with state r.
LimitRead(k, r) ==
    /\ polls[k].pc = "getLimit"
    /\ LET p == polls[k]
           reads == Append(p.reads, r)
           more == nextReads(Len(reads), Len(config.inverters))
       IN  Step(k, IF more # {}
                   THEN [p EXCEPT !.reads = reads, !.issued = @ \cup more]
                   ELSE afterSnapshot([p EXCEPT !.reads = reads], clock,
                                      lastDecreaseTime, config),
                FALSE)

\* await setState('powerControlActive', false) settles; ~ok: it threw.
InactivePublished(k, ok) ==
    /\ polls[k].pc = "setInactive"
    /\ Step(k, [polls[k] EXCEPT !.pc = "returned", !.threw = ~ok], FALSE)

\* await Promise.all(namePromises) settles: the writes of the changed limits
\* are issued.
NamesRead(k) ==
    /\ polls[k].pc = "getNames"
    /\ LET p == polls[k]
           writes == writesOf(p.rec.plan[1].newLimits)
       IN  Step(k, IF Len(writes) = 0
                   THEN [p EXCEPT !.pc = "setCurrentPowerLimit",
                                  !.rec.currentPowerLimit =
                                      <<p.rec.plan[1].totalNewLimit>>]
                   ELSE [p EXCEPT !.pc = "setLimits",
                                  !.rec.writes = writes,
                                  !.pending = { writes[j].index : j \in 1..Len(writes) }],
                FALSE)

\* Mutant: inverter<i>.powerLimit is published when the write settles, whether
\* it succeeded or failed.
afterWrite_Optimistic(p, i, ok) ==
    LET sent == { p.rec.writes[j] : j \in { j \in 1..Len(p.rec.writes) :
                                               p.rec.writes[j].index = i } }
        q == [p EXCEPT !.pending = @ \ {i},
                       !.rec.okWrites = IF ok THEN @ \cup {i} ELSE @,
                       !.rec.powerLimit = @ \cup sent]
    IN  IF q.pending = {}
        THEN [q EXCEPT !.pc = "setCurrentPowerLimit",
                       !.rec.currentPowerLimit = <<p.rec.plan[1].totalNewLimit>>]
        ELSE q

\* Mutant: a failed write rejects the Promise.all and ends
\* applyInverterPowerLimits in its catch.
afterWrite_FailFast(p, i, ok) ==
    LET sent == { p.rec.writes[j] : j \in { j \in 1..Len(p.rec.writes) :
                                               p.rec.writes[j].index = i } }
        q == [p EXCEPT !.pending = @ \ {i},
                       !.rec.okWrites = IF ok THEN @ \cup {i} ELSE @,
                       !.rec.powerLimit = IF ok THEN @ \cup sent ELSE @]
    IN  IF ~ok THEN [q EXCEPT !.pc = "returned"]
        ELSE IF q.pending = {}
        THEN [q EXCEPT !.pc = "setCurrentPowerLimit",
                       !.rec.currentPowerLimit = <<p.rec.plan[1].totalNewLimit>>]
        ELSE q

\* The poll after the write of inverter i settled: ok, and
\* inverter<i>.powerLimit is published, or failed and logged.  After the last
\* one await Promise.all(adjustmentPromises) goes on and currentPowerLimit
\* is published.
afterWrite(p, i, ok) ==
    LET sent == { p.rec.writes[j] : j \in { j \in 1..Len(p.rec.writes) :
                                               p.rec.writes[j].index = i } }
        q == [p EXCEPT !.pending = @ \ {i},
                       !.rec.okWrites = IF ok THEN @ \cup {i} ELSE @,
                       !.rec.powerLimit = IF ok THEN @ \cup sent ELSE @]
    IN  IF q.pending = {}
        THEN [q EXCEPT !.pc = "setCurrentPowerLimit",
                       !.rec.currentPowerLimit = <<p.rec.plan[1].totalNewLimit>>]
        ELSE q

\* The write of inverter i settles.
LimitWritten(k, i, ok) ==
    /\ polls[k].pc = "setLimits"
    /\ i \in polls[k].pending
    /\ Step(k, afterWrite(polls[k], i, ok), FALSE)

\* await setState('currentPowerLimit') or
\* await setState('powerControlActive', true) settles; ~ok: it threw.
\* Either way applyInverterPowerLimits returns.
ResultPublished(k, ok) ==
    /\ polls[k].pc \in {"setCurrentPowerLimit", "setActive"}
    /\ LET p == polls[k]
       IN  IF p.pc = "setCurrentPowerLimit" /\ ok
           THEN Step(k, [p EXCEPT !.pc = "setActive",
                                  !.rec.powerControlActive = <<TRUE>>], FALSE)
           ELSE Step(k, [p EXCEPT !.pc = "returned", !.threw = ~ok], TRUE)

TimerFires == \E dt \in PollGaps : StartPoll(dt)

PollContinuesWith(powerStates, limitStates) ==
    \/ \E k \in 1..Len(polls), state \in powerStates : PowerStateRead(k, state)
    \/ \E k \in 1..Len(polls), ok \in BOOLEAN : TelemetryPublished(k, ok)
    \/ \E k \in 1..Len(polls), r \in limitStates : LimitRead(k, r)
    \/ \E k \in 1..Len(polls), ok \in BOOLEAN : InactivePublished(k, ok)
    \/ \E k \in 1..Len(polls) : NamesRead(k)
    \/ \E k \in 1..Len(polls), i \in 1..Len(config.inverters), ok \in BOOLEAN :
          LimitWritten(k, i, ok)
    \/ \E k \in 1..Len(polls), ok \in BOOLEAN : ResultPublished(k, ok)

PollContinues ==
    PollContinuesWith(StatesOf({"throws"}, GridValsSteps),
                      StatesOf({"throws"}, LimitValsSteps))

InitSteps == InitWith(RawConfigsSteps)

NextSteps == OnReadySteps \/ TimerFires \/ PollContinues \/ OnUnload

SpecSteps == InitSteps /\ [][NextSteps]_vars

\* The same steps under the scheduling of the event loop: a timer that is due
\* fires, and a poll whose awaited call has settled goes on (every awaited
\* call settles).  One configuration and one reading of each kind.
RawConfigsFair == { ConfigEqual }
GridValsFair == {-3000}
LimitValsFair == {1000}

InitFair == InitWith(RawConfigsFair)

TimerFiresFair == StartPoll(1)

PollContinuesFair ==
    PollContinuesWith(StatesOf({"throws"}, GridValsFair),
                      StatesOf({"throws"}, LimitValsFair))

NextFair == OnReadySteps \/ TimerFiresFair \/ PollContinuesFair \/ OnUnload

FairSteps ==
    /\ InitFair
    /\ [][NextFair]_vars
    /\ WF_vars(TimerFiresFair)
    /\ WF_vars(PollContinuesFair)

\* The first poll after start, over every kind of read failure.
InitReads == InitWith(RawConfigsReads)

FirstPollContinues ==
    PollContinuesWith(StatesOf(ReadFailures, GridValsReads),
                      StatesOf(ReadFailures, LimitValsReads))

NextReads == OnReadySteps \/ FirstPollContinues \/ OnUnload

SpecReads == InitReads /\ [][NextReads]_vars

\* The validator alone, over every combination of missing, out-of-range,
\* boundary and proper settings, for up to MaxInverters inverters.
MaxInverters == 2
MaxPowerVals == { Null, <<-1>>, <<0>>, <<1500>>, <<2250>>, <<2251>> }
PollingIntervalVals == { Null, <<0>>, <<999>>, <<1000>>, <<5000>> }
FeedInThresholdVals == { Null, <<0>>, <<49>>, <<50>>, <<150>> }
TargetFeedInVals == { Null, <<-1>>, <<0>>, <<600>> }

InverterLists ==
    UNION { [ 1..n -> [ inverterObject : BOOLEAN, maxPower : MaxPowerVals ] ] :
            n \in 0..MaxInverters }

RawConfigsValidate ==
    [ powerSourceObject : BOOLEAN,
      invertersIs : {"array"},
      inverters : InverterLists,
      pollingInterval : PollingIntervalVals,
      feedInThreshold : FeedInThresholdVals,
      targetFeedIn : TargetFeedInVals ]
    \cup
    [ powerSourceObject : BOOLEAN,
      invertersIs : {"missing", "not an array"},
      inverters : { <<>> },
      pollingInterval : PollingIntervalVals,
      feedInThreshold : FeedInThresholdVals,
      targetFeedIn : TargetFeedInVals ]

InitValidate == InitWith(RawConfigsValidate)

NextValidate == OnReady \/ OnUnload

SpecValidate == InitValidate /\ [][NextValidate]_vars

\* createStatesAsync alone, called as its tests call it: with the inverters of
\* a configuration, an object store whose setObjectNotExistsAsync may reject
\* and a getInverterDisplayName that may reject.
ConfigFour ==
    [ powerSourceObject |-> TRUE,
      invertersIs |-> "array",
      inverters |-> [ i \in 1..4 |-> [inverterObject |-> TRUE, maxPower |-> <<2250>>] ],
      pollingInterval |-> <<1000>>, feedInThreshold |-> <<100>>, targetFeedIn |-> <<800>> ]

RawConfigsCreate == RawConfigsWide \cup { ConfigFour }

InitCreate == InitWith(RawConfigsCreate)

CreateStatesCalled ==
    /\ phase = "constructed"
    /\ creation.pc = "idle"
    /\ creation' = createStarted
    /\ UNCHANGED << phase, config, pollingTimer, lastDecreaseTime, clock, connection,
                    tick, decreases, polls, validation,
                    candidate >>

\* The awaited setObjectNotExistsAsync settles.
ObjectCreated(ok) ==
    /\ creation.pc = "create"
    /\ creation' = afterCreate(creation, config.inverters, ok)
    /\ UNCHANGED << phase, config, pollingTimer, lastDecreaseTime, clock, connection,
                    tick, decreases, polls, validation,
                    candidate >>

\* The awaited getInverterDisplayName settles.
DisplayNameSettled(ok) ==
    /\ creation.pc = "lookup"
    /\ creation' = afterLookup(creation, ok)
    /\ UNCHANGED << phase, config, pollingTimer, lastDecreaseTime, clock, connection,
                    tick, decreases, polls, validation,
                    candidate >>

NextCreate ==
    \/ CreateStatesCalled
    \/ \E ok \in BOOLEAN : ObjectCreated(ok)
    \/ \E ok \in BOOLEAN : DisplayNameSettled(ok)

SpecCreate == InitCreate /\ [][NextCreate]_vars

\* ================================================================ the object filter
\* Object ids <adapter>.0[.<group>].<state> ...
IdAdapters ==
    { << "o", "p", "e", "n", "d", "t", "u" >>,   \* opendtu
      << "O", "p", "e", "n", "D", "T", "U" >>,   \* OpenDTU
      << "s", "h", "e", "l", "l", "y" >>,   \* shelly
      << "m", "e", "t", "e", "r" >> }   \* meter
IdGroups ==
    { << >>,   \* (nothing)
      << ".", "p", "h", "a", "s", "e", "_", "1" >>,   \* .phase_1
      << ".", "i", "n", "p", "u", "t", "_", "2" >>,   \* .input_2
      << ".", "p", "h", "a", "s", "e", "_", "x" >>,   \* .phase_x
      << ".", "t", "o", "t", "a", "l" >>,   \* .total
      << ".", "d", "c" >> }   \* .dc
IdStates ==
    { << ".", "p", "o", "w", "e", "r" >>,   \* .power
      << ".", "A", "p", "p", "a", "r", "e", "n", "t", "P", "o", "w", "e", "r", "A" >>,   \* .ApparentPowerA
      << ".", "R", "e", "a", "c", "t", "i", "v", "e", "P", "o", "w", "e", "r", "B" >>,   \* .ReactivePowerB
      << ".", "A", "c", "t", "i", "v", "e", "P", "o", "w", "e", "r", "C" >>,   \* .ActivePowerC
      << ".", "A", "c", "t", "i", "v", "e", "P", "o", "w", "e", "r", "D" >>,   \* .ActivePowerD
      << ".", "p", "o", "w", "e", "r", "_", "d", "c" >>,   \* .power_dc
      << ".", "T", "o", "t", "a", "l", "A", "c", "t", "i", "v", "e", "P", "o", "w", "e", "r" >>,   \* .TotalActivePower
      << ".", "T", "o", "t", "a", "l", "A", "p", "p", "a", "r", "e", "n", "t", "P", "o", "w", "e", "r" >>,   \* .TotalApparentPower
      << ".", "g", "r", "i", "d", "P", "o", "w", "e", "r" >>,   \* .gridPower
      << ".", "t", "o", "t", "a", "l", "P", "o", "w", "e", "r" >>,   \* .totalPower
      << ".", "a", "c", "t", "i", "v", "e", "P", "o", "w", "e", "r" >>,   \* .activePower
      << ".", "p", "h", "a", "s", "e", "_", "1" >> }   \* .phase_1
ObjectIds ==
    { a \o << ".", "0" >> \o g \o s : a \in IdAdapters, g \in IdGroups, s \in IdStates }

\* ... and values of common.name: strings, and Null for a name that is not a
\* string.
ObjectNames ==
    { Null } \cup { <<n>> : n \in
        { << "T", "o", "t", "a", "l", " ", "G", "r", "i", "d", " ", "P", "o", "w", "e", "r" >>,   \* Total Grid Power
          << "M", "a", "i", "n", " ", "P", "o", "w", "e", "r", " ", "C", "o", "n", "s", "u", "m", "p", "t", "i", "o", "n" >>,   \* Main Power Consumption
          << "P", "h", "a", "s", "e", " ", "1", " ", "P", "o", "w", "e", "r" >>,   \* Phase 1 Power
          << "I", "n", "p", "u", "t", " ", "C", "h", "a", "n", "n", "e", "l", " ", "P", "o", "w", "e", "r" >>,   \* Input Channel Power
          << "T", "o", "t", "a", "l", " ", "P", "h", "a", "s", "e", " ", "P", "o", "w", "e", "r" >>,   \* Total Phase Power
          << "P", "o", "w", "e", "r" >>,   \* Power
          << "G", "R", "I", "D", " ", "i", "n", "p", "u", "t" >> }   \* GRID input
    }

InitFilter ==
    /\ phase = "constructed"
    /\ config = ConfigEqual
    /\ pollingTimer = FALSE
    /\ lastDecreaseTime = Null
    /\ clock = 0
    /\ connection = Null
    /\ tick = NoTick
    /\ decreases = [ last |-> Null, prev |-> Null, suppressed |-> 0, ended |-> 0,
                     failed |-> FALSE ]
    /\ polls = <<>>
    /\ validation = Null
    /\ creation = NoCreation
    /\ candidate \in [ id : ObjectIds, name : ObjectNames, relevant : { Null } ]

\* filterObjects asks isRelevantPowerSource about an object with a power role.
IsRelevantPowerSource ==
    /\ candidate.id # <<>>
    /\ candidate.relevant = Null
    /\ candidate' = [candidate EXCEPT
                        !.relevant = << isRelevantPowerSource(candidate.id, candidate.name) >>]
    /\ UNCHANGED << phase, config, pollingTimer, lastDecreaseTime, clock, connection,
                    tick, decreases, polls, validation, creation >>

NextFilter == IsRelevantPowerSource

SpecFilter == InitFilter /\ [][NextFilter]_vars

\* ================================================================ properties
\* The latest poll made a plan.
Planned == tick.plan # <<>>

\* A step that is a poll (every poll advances the clock).
PollStep == clock' # clock

\* The latest poll planned a change of at least the threshold, downwards.
SignificantDecrease ==
    /\ Planned
    /\ tick.plan[1].totalNewLimit < tick.plan[1].totalOldLimit
    /\ tick.plan[1].totalOldLimit - tick.plan[1].totalNewLimit >= config.feedInThreshold[1]

\* The latest poll planned a change of at least the threshold, upwards.
SignificantIncrease ==
    /\ Planned
    /\ tick.plan[1].totalNewLimit > tick.plan[1].totalOldLimit
    /\ tick.plan[1].totalNewLimit - tick.plan[1].totalOldLimit >= config.feedInThreshold[1]

\* C1: a poll that applies an increase leaves the last-decrease timestamp
\* unchanged; the timestamp changes only in a poll that applies a decrease.
C1_IncreaseKeepsLastDecrease ==
    [][ PollStep =>
          /\ (SignificantIncrease' /\ Len(tick'.writes) > 0
                => lastDecreaseTime' = lastDecreaseTime)
          /\ (lastDecreaseTime' # lastDecreaseTime
                => SignificantDecrease' /\ Len(tick'.writes) > 0) ]_vars

\* C2: two successive applied decreases are at least 3 x pollingInterval
\* apart, whatever was applied between them.
C2_DecreasesCooldownApart ==
    decreases.prev # Null =>
        decreases.last[1] - decreases.prev[1]
            >= DecreaseDelayFactor * config.pollingInterval[1]

\* C3: a poll that plans a significant decrease writes limits if and only if
\* no last-decrease timestamp is set or at least 3 x pollingInterval passed
\* since it (the bound included); otherwise it writes nothing and publishes
\* powerControlActive = false.
C3_DecreaseGate ==
    [][ PollStep /\ SignificantDecrease' =>
          /\ (Len(tick'.writes) > 0) <=>
                \/ lastDecreaseTime = Null
                \/ clock' - lastDecreaseTime[1]
                      >= DecreaseDelayFactor * config.pollingInterval[1]
          /\ (Len(tick'.writes) = 0 => tick'.powerControlActive = <<FALSE>>) ]_vars

\* C3 witness: a significant decrease was planned and held back by the delay.
C3_Witness ==
    /\ SignificantDecrease
    /\ Len(tick.writes) = 0
    /\ lastDecreaseTime # Null
    /\ tick.now - lastDecreaseTime[1] < DecreaseDelayFactor * config.pollingInterval[1]

\* C4: a planned change below feedInThreshold writes nothing and publishes
\* powerControlActive = false; a change of at least feedInThreshold (equality
\* included) goes on: an increase is written, a decrease is written unless the
\* decrease delay holds it back.
C4_SignificanceGate ==
    [][ PollStep /\ Planned' =>
          LET old == tick'.plan[1].totalOldLimit
              new == tick'.plan[1].totalNewLimit
              change == IF new >= old THEN new - old ELSE old - new
          IN  /\ (change < config.feedInThreshold[1] =>
                    /\ Len(tick'.writes) = 0
                    /\ tick'.powerControlActive = <<FALSE>>)
              /\ (change >= config.feedInThreshold[1] /\ new > old =>
                    /\ Len(tick'.writes) > 0
                    /\ tick'.powerControlActive = <<TRUE>>)
              /\ (change >= config.feedInThreshold[1] /\ new < old
                    /\ lastDecreaseTime = Null =>
                    /\ Len(tick'.writes) > 0
                    /\ tick'.powerControlActive = <<TRUE>>) ]_vars

\* C4 witness: a change of exactly the threshold was written.
C4_Witness ==
    /\ Planned
    /\ Abs(tick.plan[1].totalNewLimit - tick.plan[1].totalOldLimit)
          = config.feedInThreshold[1]
    /\ Len(tick.writes) > 0

\* The configured inverter of a plan entry.
InverterOf(entry) == config.inverters[entry.index]

\* C5: every planned value is at most the maxPower of its inverter, and
\* totalNewLimit is the sum of the planned values.
C5_ClampedAndSummed ==
    Planned =>
        LET newLimits == tick.plan[1].newLimits
        IN  /\ \A k \in 1..Len(newLimits) :
                  newLimits[k].newValue <= InverterOf(newLimits[k]).maxPower[1]
            /\ tick.plan[1].totalNewLimit
                  = SumSeq([ k \in 1..Len(newLimits) |-> newLimits[k].newValue ])

C7_NoOpSkip ==
    Planned /\ tick.applied =>
        LET newLimits == tick.plan[1].newLimits
        IN  \A k \in 1..Len(newLimits) :
              LET sent == { j \in 1..Len(tick.writes) :
                              tick.writes[j].index = newLimits[k].index }
              IN  IF newLimits[k].newValue = newLimits[k].oldValue
                  THEN /\ sent = {}
                       /\ ~\E u \in tick.powerLimit : u.index = newLimits[k].index
                  ELSE /\ Cardinality(sent) = 1
                       /\ \A j \in sent : tick.writes[j].value = newLimits[k].newValue

\* C7 witness: an applied plan with one inverter unchanged and one changed.
C7_Witness ==
    /\ Planned
    /\ tick.applied
    /\ \E k \in 1..Len(tick.plan[1].newLimits) :
          tick.plan[1].newLimits[k].newValue = tick.plan[1].newLimits[k].oldValue
    /\ Len(tick.writes) = 1

\* Every planned value is the equal share floor(target / count), or the cap of
\* its inverter when the share is above that cap.
SplitOf(target, count) ==
    \A k \in 1..Len(tick.plan[1].newLimits) :
        LET entry == tick.plan[1].newLimits[k]
        IN  \/ entry.newValue = target \div count
            \/ /\ entry.newValue < target \div count
               /\ entry.newValue \in { InverterOf(entry).maxPower[1], DefaultMaxPower }

\* The latest poll ran with these capacities, limits read and grid power.
Scenario(maxPowers, targetFeedIn, limits, g) ==
    /\ Planned
    /\ [ i \in 1..Len(config.inverters) |-> config.inverters[i].maxPower[1] ] = maxPowers
    /\ config.targetFeedIn = <<targetFeedIn>>
    /\ [ k \in 1..Len(tick.currentLimits) |-> tick.currentLimits[k].value ] = limits
    /\ tick.g = <<g>>

\* The planned values of the latest poll.
PlannedValues ==
    [ k \in 1..Len(tick.plan[1].newLimits) |-> tick.plan[1].newLimits[k].newValue ]

C10_SplitBySnapshotCount ==
    Planned =>
        LET raw == tick.plan[1].totalOldLimit + tick.g[1] + config.targetFeedIn[1]
            target == IF tick.g[1] >= 0 THEN raw ELSE Max(0, raw)
        IN  \A k \in 1..Len(tick.plan[1].newLimits) :
                tick.plan[1].newLimits[k].newValue
                    = Min(target \div Len(tick.currentLimits),
                          InverterOf(tick.plan[1].newLimits[k]).maxPower[1])

\* Every inverter of the snapshot of the latest poll reads its maxPower.
SnapshotAtMaxPower ==
    \A k \in 1..Len(tick.currentLimits) :
        tick.currentLimits[k].value = InverterOf(tick.currentLimits[k]).maxPower[1]

\* C11: the threshold gate compares the total after clamping: a poll whose
\* clamped total equals the old total, as when every inverter of the snapshot
\* is at its maxPower and the grid power is >= 0, writes no limit and
\* publishes powerControlActive = false.
C11_PostClampGate ==
    Planned /\ ( \/ tick.plan[1].totalNewLimit = tick.plan[1].totalOldLimit
                 \/ SnapshotAtMaxPower /\ tick.g[1] >= 0 ) =>
        /\ Len(tick.writes) = 0
        /\ tick.powerControlActive = <<FALSE>>

\* ------------------------------------------------ properties of SpecSteps
\* The pollPowerData calls in progress.
Running == { k \in 1..Len(polls) : InFlight(polls[k]) }

\* Poll k was admitted as a decrease and is in applyInverterPowerLimits.
ApplyingDecrease(k) ==
    /\ polls[k].decision = "decrease"
    /\ polls[k].pc \in {"getNames", "setLimits", "setCurrentPowerLimit", "setActive"}

\* C12: from the moment a decrease is admitted, before any of its writes is
\* issued and while they are pending, the last-decrease timestamp is the
\* time of that admission.
C12_StampedAtAdmission ==
    \A k \in 1..Len(polls) :
        ApplyingDecrease(k) => lastDecreaseTime = <<polls[k].rec.now>>

\* Poll k has returned from applyInverterPowerLimits.
Applied(k) == polls[k].pc = "returned" /\ polls[k].rec.applied

\* C13: when a plan is applied, every changed limit is written whichever
\* writes fail, and once all writes have settled currentPowerLimit = the
\* plan's totalNewLimit and powerControlActive = true are published,
\* whichever writes succeeded (the publishing itself not failing).
C13_WriteFailureIsolation ==
    \A k \in 1..Len(polls) :
        LET rec == polls[k].rec
        IN  /\ polls[k].pc \in {"setLimits", "setCurrentPowerLimit", "setActive"}
                 \/ Applied(k) =>
                    /\ rec.writes = writesOf(rec.plan[1].newLimits)
                    /\ rec.okWrites \cup polls[k].pending
                          \subseteq { rec.writes[j].index : j \in 1..Len(rec.writes) }
            /\ Applied(k) =>
                    /\ polls[k].pending = {}
                    /\ rec.currentPowerLimit = <<rec.plan[1].totalNewLimit>>
                    /\ ~polls[k].threw => rec.powerControlActive = <<TRUE>>

\* C13 witness: a plan with two changed limits was applied, one write failed
\* and one succeeded, and both states were published.
C13_Witness ==
    \E k \in 1..Len(polls) :
        /\ Applied(k)
        /\ Len(polls[k].rec.writes) = 2
        /\ Cardinality(polls[k].rec.okWrites) = 1
        /\ polls[k].rec.powerControlActive = <<TRUE>>

\* Every limit read of poll k has settled.
SnapshotTaken(k) ==
    /\ Len(config.inverters) > 0
    /\ Len(polls[k].reads) = Len(config.inverters)

\* The entries of the snapshot of poll k for inverter i.
EntriesOf(k, i) ==
    { j \in 1..Len(polls[k].rec.currentLimits) :
          polls[k].rec.currentLimits[j].index = i }

\* C14: a limit read that returns no state, null, undefined or something
\* that is not a number, or that throws, leaves its inverter out of the
\* snapshot (it does not count as 0 W) and the reads of the other inverters
\* go on; a read of a number, 0 included, gives exactly one entry with that
\* number and the index of the inverter.
C14_SnapshotReader ==
    \A k \in 1..Len(polls) :
        /\ polls[k].pc = "getLimit" =>
              Len(polls[k].reads) + 1 \in polls[k].issued
        /\ polls[k].reads # <<>> /\ polls[k].pc # "getLimit" => SnapshotTaken(k)
        /\ SnapshotTaken(k) =>
              \A i \in 1..Len(config.inverters) :
                  IF polls[k].reads[i].kind = "number"
                  THEN /\ Cardinality(EntriesOf(k, i)) = 1
                       /\ \A j \in EntriesOf(k, i) :
                             polls[k].rec.currentLimits[j].value = polls[k].reads[i].val
                  ELSE EntriesOf(k, i) = {}

\* C14 witness: the first read threw, the second returned 0, and the
\* snapshot is the one entry of 0 W for the second inverter.
C14_Witness ==
    \E k \in 1..Len(polls) :
        /\ SnapshotTaken(k)
        /\ polls[k].reads[1].kind = "throws"
        /\ polls[k].rec.currentLimits = << [index |-> 2, value |-> 0] >>

\* No limit read of poll k returned a number.
NothingRead(k) ==
    \A i \in 1..Len(polls[k].reads) : polls[k].reads[i].kind # "number"

\* C15: a poll whose limit reads all fail ends there: it makes no plan,
\* writes no limit, publishes no powerControlActive, leaves the last-decrease
\* timestamp as it was, and the timer for the next poll is armed.
C15_EmptySnapshotAborts ==
    [][ \A k \in 1..Len(polls) :
          /\ polls[k].pc = "getLimit"
          /\ Len(polls') = Len(polls)
          /\ SnapshotTaken(k)'
          /\ NothingRead(k)'
          => /\ polls'[k].pc = "returned"
             /\ tick' = polls'[k].rec
             /\ tick'.plan = <<>>
             /\ tick'.writes = <<>>
             /\ tick'.currentPowerLimit = Null
             /\ tick'.powerControlActive = Null
             /\ polls'[k].pending = {}
             /\ lastDecreaseTime' = lastDecreaseTime
             /\ pollingTimer' ]_vars

\* C15 witness: a decrease was applied before, and the latest poll read the
\* grid power but no limit.
C15_Witness ==
    \E k \in 1..Len(polls) :
        /\ polls[k].pc = "returned"
        /\ SnapshotTaken(k)
        /\ NothingRead(k)
        /\ tick.gridPower # Null
        /\ lastDecreaseTime # Null
        /\ pollingTimer

\* The grid power read of poll k failed.
NoGridPower(k) == polls[k].powerState.kind \in ReadFailures

\* C16: a poll whose grid power read returns no state, null, undefined or
\* something that is not a number, or throws, ends there: it publishes no
\* gridPower and no feedingIn, issues no limit read, makes no plan and
\* writes no limit.
C16_NoTelemetryAborts ==
    \A k \in 1..Len(polls) :
        NoGridPower(k) =>
            /\ polls[k].pc = "returned"
            /\ polls[k].rec.gridPower = Null
            /\ polls[k].rec.feedingIn = Null
            /\ polls[k].issued = {}
            /\ polls[k].reads = <<>>
            /\ polls[k].rec.plan = <<>>
            /\ polls[k].rec.writes = <<>>
            /\ polls[k].pending = {}
            /\ polls[k].rec.powerControlActive = Null

\* C16 witness: the grid power state held something that is not a number.
C16_Witness ==
    \E k \in 1..Len(polls) :
        /\ polls[k].powerState.kind = "not a number"
        /\ polls[k].pc = "returned"
        /\ tick = polls[k].rec

\* C17: at most one pollPowerData call is in progress, and the timer of the
\* next poll is armed only when none is: the call before has returned, with
\* every limit read and every limit write it issued settled.
C17_SingleFlight ==
    /\ Cardinality(Running) <= 1
    /\ pollingTimer => Running = {}
    /\ \A k \in 1..Len(polls) :
          polls[k].pc = "returned" =>
              /\ polls[k].pending = {}
              /\ polls[k].issued \subseteq 1..Len(polls[k].reads)

\* C17 witness: exactly one poll is in flight, waiting for limit writes it
\* issued, and no timer is armed.
C17_Witness ==
    /\ ~pollingTimer
    /\ Cardinality(Running) = 1
    /\ \E k \in Running : polls[k].pending # {}

\* Poll k returns in this step.
Returns(k) ==
    /\ InFlight(polls[k])
    /\ Len(polls') = Len(polls)
    /\ ~InFlight(polls'[k])

\* A further poll fits into the time that is followed.
TimeLeft == clock + config.pollingInterval[1] <= MaxTime * config.pollingInterval[1]

\* C18: every poll, also one that got no grid power, lost a limit read or a
\* limit write, or whose state update threw, arms the timer when it returns;
\* a poll in progress returns, and an armed timer leads to the next poll
\* unless the adapter is unloaded first.
C18_PollingContinues ==
    /\ [][ \A k \in 1..Len(polls) : Returns(k) => pollingTimer' ]_vars
    /\ (Running # {}) ~> pollingTimer
    /\ (pollingTimer /\ phase = "running" /\ TimeLeft)
          ~> (Running # {} \/ phase = "stopped")

\* C18 witness: the poll before threw when it published the grid power, and
\* the next poll is running.
C18_Witness ==
    /\ tick.gridPower # Null
    /\ tick.feedingIn = Null
    /\ tick.now < clock
    /\ Running # {}

\* The state of the per-tick state machine a poll is in.
StageOf(p) ==
    CASE p.pc \in {"getPowerState", "setGridPower", "setFeedingIn", "returned"}
              -> "MONITORING"
      [] p.pc = "getLimit" -> "SNAPSHOT"
      [] p.pc = "setInactive" /\ p.decision = "belowThreshold" -> "SUPPRESSED (threshold)"
      [] p.pc = "setInactive" /\ p.decision # "belowThreshold" -> "SUPPRESSED (cooldown)"
      [] p.pc \in {"getNames", "setLimits"} -> "APPLYING"
      [] p.pc \in {"setCurrentPowerLimit", "setActive"} -> "APPLIED"

\* The steps of the state machine; PLANNED is passed within the step that
\* leaves SNAPSHOT with a plan.
StageStep(from, p) ==
    LET to == StageOf(p)
    IN  CASE from = "MONITORING" -> to \in {"MONITORING", "SNAPSHOT"} /\ p.rec.plan = <<>>
          [] from = "SNAPSHOT" ->
                \/ to = "SNAPSHOT" /\ p.rec.plan = <<>>
                \/ to = "MONITORING" /\ p.rec.plan = <<>>
                \/ /\ to \in {"SUPPRESSED (threshold)", "SUPPRESSED (cooldown)", "APPLYING"}
                   /\ p.rec.plan # <<>>
          [] from \in {"SUPPRESSED (threshold)", "SUPPRESSED (cooldown)"} ->
                to = "MONITORING" /\ p.pc = "returned"
          [] from = "APPLYING" -> to \in {"APPLYING", "APPLIED"}
          [] from = "APPLIED" -> to = "APPLIED" \/ (to = "MONITORING" /\ p.pc = "returned")

\* C19: a poll goes MONITORING -> SNAPSHOT -> PLANNED and then to exactly one
\* of SUPPRESSED (threshold), SUPPRESSED (cooldown) or APPLYING -> APPLIED,
\* or it ends before a plan is made, and then is back in MONITORING; limit
\* writes are issued and pending only in APPLYING, powerControlActive = false
\* is published in both SUPPRESSED states, powerControlActive = true only in
\* APPLIED.
C19_TickStateMachine ==
    /\ [][ \A k \in 1..Len(polls) :
             InFlight(polls[k]) /\ Len(polls') = Len(polls) /\ polls'[k] # polls[k]
                 => StageStep(StageOf(polls[k]), polls'[k]) ]_vars
    /\ [](\A k \in 1..Len(polls) :
            LET p == polls[k]
                stage == StageOf(p)
            IN  /\ p.pending # {} => stage = "APPLYING"
                /\ p.rec.writes # <<>> /\ InFlight(p) => stage \in {"APPLYING", "APPLIED"}
                /\ stage \in {"SUPPRESSED (threshold)", "SUPPRESSED (cooldown)"} =>
                      /\ p.rec.powerControlActive = <<FALSE>>
                      /\ p.rec.writes = <<>>
                /\ p.rec.powerControlActive = <<FALSE>> =>
                      /\ p.decision \in {"belowThreshold", "delayed"}
                      /\ p.rec.writes = <<>>
                /\ p.rec.powerControlActive = <<TRUE>> =>
                      /\ p.pc \in {"setActive", "returned"}
                      /\ p.rec.applied
                      /\ p.pending = {}
                /\ stage = "SUPPRESSED (cooldown)" =>
                      p.rec.plan[1].totalNewLimit < p.rec.plan[1].totalOldLimit)

\* C19 witness: the poll before was applied and published
\* powerControlActive = true; this poll is held back by the decrease delay.
C19_Witness ==
    /\ tick.applied
    /\ tick.powerControlActive = <<TRUE>>
    /\ \E k \in Running : StageOf(polls[k]) = "SUPPRESSED (cooldown)"

\* C20: the limit reads of all configured inverters are issued together,
\* before any of them settles, and the snapshot is complete only when all
\* have settled.
C20_ReadsIssuedTogether ==
    \A k \in 1..Len(polls) :
        /\ polls[k].pc = "getLimit" =>
              polls[k].issued = 1..Len(config.inverters)
        /\ polls[k].rec.currentLimits # <<>> =>
              Len(polls[k].reads) = Len(config.inverters)

\* C21: importing (g >= 0), the raw target is totalOld + g + targetFeedIn and
\* every inverter of the snapshot is given the smaller of
\* floor(target / number of configured inverters) and its maxPower.
C21_ImportSplit ==
    Planned /\ tick.g[1] >= 0 =>
        LET target == tick.plan[1].totalOldLimit + tick.g[1] + config.targetFeedIn[1]
            share  == target \div Len(config.inverters)
            newLimits == tick.plan[1].newLimits
        IN  \A k \in 1..Len(newLimits) :
                newLimits[k].newValue
                    = Min(share, InverterOf(newLimits[k]).maxPower[1])

C23_TelemetryThenEvaluation ==
    \A k \in 1..Len(polls) :
        LET p == polls[k]
            numeric == p.powerState.kind = "number"
            evaluating == p.issued # {}
            telemetryThrew == /\ p.threw
                              /\ p.rec.powerControlActive = Null
                              /\ p.rec.currentPowerLimit = Null
        IN  /\ p.rec.gridPower = IF numeric THEN <<p.powerState.val>> ELSE Null
            /\ p.rec.feedingIn # Null =>
                  numeric /\ p.rec.feedingIn = <<p.powerState.val < 0>>
            /\ p.pc = "setGridPower" => p.rec.feedingIn = Null /\ ~evaluating
            /\ p.pc = "setFeedingIn" => p.rec.feedingIn # Null /\ ~evaluating
            /\ evaluating => /\ p.rec.feedingIn # Null
                             /\ p.rec.g = <<p.powerState.val>>
            /\ telemetryThrew =>
                  p.pc = "returned" /\ ~evaluating /\ p.rec.plan = <<>>
            /\ numeric /\ p.pc = "returned" /\ ~evaluating => telemetryThrew

\* C23 witness: a reading of exactly 0 W was published as not feeding in and
\* its evaluation made a plan.
C23_Witness ==
    \E k \in 1..Len(polls) :
        /\ polls[k].powerState = [kind |-> "number", val |-> 0]
        /\ polls[k].rec.gridPower = <<0>>
        /\ polls[k].rec.feedingIn = <<FALSE>>
        /\ polls[k].rec.plan # <<>>

\* The step in which onReady validates and normalizes the configuration.
Validates == phase = "constructed" /\ phase' # "constructed"

\* C24: validateAndNormalize replaces a missing maxPower, one above 2250 and a
\* negative one by 2250 and keeps every other value, for valid and invalid
\* configurations alike, so that afterwards every maxPower is in [0, 2250].
C24_MaxPowerNormalized ==
    [][ Validates =>
          /\ Len(config'.inverters) = Len(config.inverters)
          /\ \A i \in 1..Len(config.inverters) :
                LET old == config.inverters[i].maxPower
                    new == config'.inverters[i].maxPower
                IN  /\ new # Null
                    /\ new[1] >= 0 /\ new[1] <= 2250
                    /\ new[1] = IF old = Null THEN 2250
                                ELSE IF old[1] > 2250 \/ old[1] < 0 THEN 2250
                                ELSE old[1] ]_vars

\* C24 witness: after validation one inverter has kept a maxPower of 0 W and
\* another one has 2250 W.
C24_Witness ==
    /\ validation # Null
    /\ \E i, j \in 1..Len(config.inverters) :
          /\ config.inverters[i].maxPower = <<0>>
          /\ config.inverters[j].maxPower = <<2250>>

C26_AllErrorsCollected ==
    validation # Null =>
        LET result == validation[1]
            noSource == IF config.powerSourceObject THEN 0 ELSE 1
            noInverters == IF config.invertersIs # "array" \/ Len(config.inverters) = 0
                           THEN 1 ELSE 0
            noObject == { i \in 1..Len(config.inverters) :
                            ~config.inverters[i].inverterObject }
        IN  /\ result.isValid = (result.errors = {})
            /\ Cardinality(result.errors) = noSource + noInverters + Cardinality(noObject)
            /\ noSource = 1 <=> <<"powerSourceObject", 0>> \in result.errors
            /\ noInverters = 1 <=> <<"inverters", 0>> \in result.errors
            /\ \A i \in 1..Len(config.inverters) :
                  i \in noObject <=> <<"inverterObject", i>> \in result.errors
            /\ result.isValid <=> connection = <<TRUE>>

\* C26 witness: one call reported three errors.
C26_Witness ==
    /\ validation # Null
    /\ Cardinality(validation[1].errors) = 3

\* C27: the first grid-power reading after start is only stored: in the first
\* poll no inverter limit is read, no limit is written and no status
\* (powerControlActive, currentPowerLimit, inverter<i>.powerLimit) is updated.
C27_FirstReadingOnlyStored ==
    \A k \in 1..Len(polls) :
        polls[k].rec.now = config.pollingInterval[1] =>
            /\ polls[k].issued = {}
            /\ polls[k].rec.writes = <<>>
            /\ polls[k].rec.powerControlActive = Null
            /\ polls[k].rec.currentPowerLimit = Null
            /\ polls[k].rec.powerLimit = {}

ExpectedStates(n) ==
    [ k \in 1..(Len(BaseStates) + n) |->
        IF k <= Len(BaseStates)
        THEN stateId(BaseStates[k], Null)
        ELSE stateId("powerLimit", <<k - Len(BaseStates)>>) ]

\* C29: createStatesAsync creates gridPower, feedingIn, currentPowerLimit and
\* powerControlActive and then one powerLimit state per inverter in index
\* order, each after the lookup of that inverter's display name; a call that
\* completes has made exactly 4 + N creations and N lookups; a lookup that
\* rejects ends the call with that error, and no state of that inverter or of
\* a later one is created.
C29_StatesCreatedInOrder ==
    LET N == Len(config.inverters)
        made == Len(creation.calls)
        asked == Len(creation.lookups)
    IN  /\ made <= Len(BaseStates) + N
        /\ creation.calls = SubSeq(ExpectedStates(N), 1, made)
        /\ asked <= N
        /\ creation.lookups = [ i \in 1..asked |-> i ]
        /\ asked > 0 => made \in { Len(BaseStates) + asked - 1, Len(BaseStates) + asked }
        /\ creation.pc = "done" => made = Len(BaseStates) + N /\ asked = N
        /\ \A i \in creation.rejected :
              /\ creation.pc = "failed"
              /\ \A k \in 1..made :
                    creation.calls[k].inverter = Null \/ creation.calls[k].inverter[1] < i

\* C29 witness: the lookup for the second inverter rejected after the first
\* inverter's state had been created.
C29_Witness ==
    /\ creation.pc = "failed"
    /\ creation.rejected = {2}
    /\ Len(creation.calls) = Len(BaseStates) + 1

\* C30: once onUnload has run no poll starts and no limit write is issued any
\* more, also when a poll was in progress at that moment.
C30_QuietAfterUnload ==
    [][ phase = "stopped" =>
          /\ ~PollStep
          /\ Len(polls') = Len(polls) =>
                \A k \in 1..Len(polls) :
                    polls'[k].rec.writes = polls[k].rec.writes ]_vars

\* C31: polls being at least one pollingInterval apart, the cooldown
\* suppresses at most two ticks after an applied decrease: a third tick that
\* plans a significant decrease comes 3 x pollingInterval or more after it and
\* is applied.
C31_BoundedSuppression ==
    /\ decreases.suppressed <= DecreaseDelayFactor - 1
    /\ decreases.ended <= DecreaseDelayFactor - 1
    /\ decreases.suppressed > 0 =>
          /\ decreases.last # Null
          /\ clock - decreases.last[1] >= decreases.suppressed * config.pollingInterval[1]

\* C31 witness: two ticks in a row were suppressed by the cooldown and the
\* decrease of the third tick, 3 x pollingInterval after the previous
\* decrease, has just been applied.
C31_Witness ==
    /\ decreases.ended = 2
    /\ decreases.prev # Null
    /\ decreases.last[1] - decreases.prev[1] = 3 * config.pollingInterval[1]
    /\ tick.now = decreases.last[1]
    /\ tick.applied
    /\ tick.plan[1].totalNewLimit < tick.plan[1].totalOldLimit

\* C32: an applied decrease of which every write failed still sets the
\* last-decrease timestamp to its admission time, and every decrease planned
\* less than 3 x pollingInterval after it is suppressed.
C32_FailedDecreaseStartsCooldown ==
    [][ PollStep =>
          /\ (SignificantDecrease' /\ tick'.applied /\ tick'.okWrites = {})
                => lastDecreaseTime' = <<tick'.now>>
          /\ ( /\ decreases.last # Null
               /\ decreases.failed
               /\ SignificantDecrease'
               /\ tick'.now - decreases.last[1]
                     < DecreaseDelayFactor * config.pollingInterval[1] )
                => (~tick'.applied /\ tick'.writes = <<>>) ]_vars

C34_NoLoweringOnIncrease ==
    Planned /\ tick.applied
            /\ tick.plan[1].totalNewLimit >= tick.plan[1].totalOldLimit =>
        \A j \in 1..Len(tick.writes) :
            \A k \in 1..Len(tick.plan[1].newLimits) :
                tick.plan[1].newLimits[k].index = tick.writes[j].index
                    => tick.writes[j].value >= tick.plan[1].newLimits[k].oldValue

\* C35: inverter<i>.powerLimit is published with value v only after the write
\* of v to inverter i, issued in the same tick, has succeeded; an inverter
\* whose write failed, is still pending or was skipped gets no status update;
\* and once all writes have settled currentPowerLimit is published as the
\* total of the plan, however many writes failed.
C35_StatusFollowsWrite ==
    \A k \in 1..Len(polls) :
        LET p == polls[k]
            r == p.rec
            written == { r.writes[j].index : j \in 1..Len(r.writes) }
        IN  /\ \A u \in r.powerLimit :
                  /\ \E j \in 1..Len(r.writes) : r.writes[j] = u
                  /\ u.index \in r.okWrites
                  /\ u.index \notin p.pending
            /\ r.okWrites \subseteq written
            /\ r.plan # <<>> =>
                  \A n \in 1..Len(r.plan[1].newLimits) :
                      LET entry == r.plan[1].newLimits[n]
                      IN  (entry.index \notin r.okWrites \/ entry.newValue = entry.oldValue)
                              => ~\E u \in r.powerLimit : u.index = entry.index
            /\ (r.applied /\ (p.pc \in {"setCurrentPowerLimit", "setActive", "returned"}))
                  => r.currentPowerLimit = <<r.plan[1].totalNewLimit>>
            /\ r.currentPowerLimit # Null => r.applied /\ p.pending = {}

\* C35 witness: of two writes one succeeded and one failed; only the first
\* inverter's status was published, and currentPowerLimit is the plan's total.
C35_Witness ==
    \E k \in 1..Len(polls) :
        /\ polls[k].pc = "returned"
        /\ Len(polls[k].rec.writes) = 2
        /\ polls[k].rec.okWrites = {1}
        /\ { u.index : u \in polls[k].rec.powerLimit } = {1}
        /\ polls[k].rec.currentPowerLimit = <<polls[k].rec.plan[1].totalNewLimit>>

\* C36: startup gating.  When validateAndNormalize reports the configuration
\* invalid, onReady starts no poll (so no telemetry is read and no limit is
\* written), arms no timer, creates no state and leaves info.connection
\* false; info.connection is true only when the configuration was reported
\* valid, all adapter states have been created and the first poll has been
\* started.
C36_StartupGating ==
    /\ (validation # Null /\ ~validation[1].isValid) =>
          ( /\ polls = <<>>
            /\ ~pollingTimer
            /\ connection = <<FALSE>>
            /\ creation = NoCreation )
    /\ (connection = <<TRUE>>) =>
          ( /\ validation # Null
            /\ validation[1].isValid
            /\ creation.pc = "done"
            /\ creation.calls = ExpectedStates(Len(config.inverters))
            /\ polls # <<>> )

C36_Witness ==
    /\ validation # Null
    /\ ~validation[1].isValid
    /\ validation[1].errors # {}
    /\ phase = "invalid"
    /\ connection = <<FALSE>>
    /\ polls = <<>>

\* C37: the rounding loss is bounded.  With a raw target that is not negative,
\* totalNewLimit is never above the raw target; when, in addition, every
\* configured inverter is in the snapshot and no new value was cut to a
\* maxPower, the raw target exceeds totalNewLimit by less than the number of
\* inverters.
C37_RoundingLossBounded ==
    Planned =>
        LET plan == tick.plan[1]
            N == Len(config.inverters)
            target == newTotalLimit(tick.g[1], plan.totalOldLimit, config)
            share == target \div N
            complete == Len(plan.newLimits) = N
            unclamped == \A k \in 1..Len(plan.newLimits) :
                            plan.newLimits[k].newValue = share
        IN  target >= 0 =>
              /\ plan.totalNewLimit <= target
              /\ (complete /\ unclamped) =>
                    ( /\ target - plan.totalNewLimit < N
                      /\ target - plan.totalNewLimit >= 0 )

\* C37 witness: three inverters, all read and none clamped, lose the largest
\* possible remainder.
C37_Witness ==
    /\ Planned
    /\ Len(config.inverters) = 3
    /\ Len(tick.plan[1].newLimits) = 3
    /\ \A k \in 1..3 : tick.plan[1].newLimits[k].newValue
                          < InverterOf(tick.plan[1].newLimits[k]).maxPower[1]
    /\ newTotalLimit(tick.g[1], tick.plan[1].totalOldLimit, config)
          - tick.plan[1].totalNewLimit = 2

\* C38: isRelevantPowerSource applies the exclusions first.  An id that
\* contains 'opendtu' in any letter case, or that matches an exclude pattern,
\* is not a relevant power source, whatever include pattern it matches and
\* whatever its name contains; and an object that is judged by its name is
\* not relevant when the name contains 'phase' or 'input'.
C38_ExclusionFirst ==
    (candidate.relevant # Null) =>
        LET id == candidate.id
            name == candidate.name
            named(word) == name # Null /\ includes(toLowerCase(name[1]), word)
        IN  /\ ( \/ includes(toLowerCase(id), << "o", "p", "e", "n", "d", "t", "u" >>)
                 \/ matchesExclude(id) )
                  => (candidate.relevant = <<FALSE>>)
            /\ ( /\ ~matchesInclude(id)
                 /\ named(<< "p", "h", "a", "s", "e" >>) \/ named(<< "i", "n", "p", "u", "t" >>) )
                  => (candidate.relevant = <<FALSE>>)

\* C38 witness: shelly.0.phase_1.activePower named 'Total Grid Power' matches
\* an exclude pattern, an include pattern and the name rule, and is rejected.
C38_Witness ==
    /\ candidate.id = << "s", "h", "e", "l", "l", "y", ".", "0", ".", "p", "h", "a", "s", "e", "_", "1", ".", "a", "c", "t", "i", "v", "e", "P", "o", "w", "e", "r" >>
    /\ candidate.name = << << "T", "o", "t", "a", "l", " ", "G", "r", "i", "d", " ", "P", "o", "w", "e", "r" >> >>
    /\ candidate.relevant = <<FALSE>>

====
